---------------------------- MODULE Spec2Model ----------------------------
(* A state-machine model of framed's Gurobi solver wrapper                   *)
(* (framed/solvers/gurobi_wrapper.py) and of the essentiality scan           *)
(* (framed/analysis/essentiality.py).                                        *)
(*                                                                           *)
(* Python values are encoded as follows.  None is the empty tuple and a      *)
(* non-null value v of a nullable slot is the one-tuple <<v>>.  A dict is a  *)
(* function with a finite domain.  Flux values are integers; the models      *)
(* used are network (totally unimodular) problems with integer data, whose   *)
(* linear optima are integral.  min_growth is a rational <<num, den>>.       *)
EXTENDS Integers, Sequences, FiniteSets, TLC

VARIABLES solver, call, scan, ops, other, overlapped

vars == <<solver, call, scan, ops, other, overlapped>>

\* What a single call path leaves alone: the second path.
seq == <<other, overlapped>>

-----------------------------------------------------------------------------
(* Bounds of the model.                                                      *)

MaxOps == 2

-----------------------------------------------------------------------------
(* Python / gurobipy constants.                                              *)

None == <<>>
Some(v) == <<v>>

INFINITY == 1000

GRB_OPTIMAL == 2
GRB_INFEASIBLE == 3
GRB_INF_OR_UNBD == 4
GRB_UNBOUNDED == 5
GRB_TIME_LIMIT == 9

GRB_MAXIMIZE == -1
GRB_MINIMIZE == 1

EngineStatuses == 1 .. 15

Statuses == {"OPTIMAL", "UNBOUNDED", "UNFEASIBLE", "UNKNOWN"}

EmptyDict == [k \in {} |-> 0]

-----------------------------------------------------------------------------
(* Small arithmetic helpers.                                                 *)

Abs(n) == IF n < 0 THEN -n ELSE n

RECURSIVE SumOver(_, _)
SumOver(S, f) ==
    IF S = {} THEN 0
    ELSE LET e == CHOOSE x \in S : TRUE
         IN f[e] + SumOver(S \ {e}, f)

Range(s) == {s[i] : i \in DOMAIN s}

-----------------------------------------------------------------------------
(* The Model collaborator (spec section 6): reactions, metabolites,          *)
(* stoichiometry, bounds, objective and, for gene-capable models, genes and  *)
(* gene-reaction rules.  A rule is a set of gene sets, read as an OR of      *)
(* ANDs; the empty rule means the reaction has no gene association.          *)

Bnd(lo, hi) == <<lo, hi>>

NoRules == [r \in {"R1", "R2", "R3"} |-> {}]

\* R1 consumes M1 and R2 produces it: the end-to-end scenario of the spec.
ToyModel ==
    [name |-> "toy",
     reactions |-> <<"R1", "R2">>,
     metabolites |-> <<"M1">>,
     stoichiometry |-> (<<"M1", "R1">> :> -1) @@ (<<"M1", "R2">> :> 1),
     bounds |-> ("R1" :> Bnd(Some(0), Some(10))) @@ ("R2" :> Bnd(Some(0), Some(10))),
     objective |-> ("R2" :> 1),
     gpr |-> FALSE,
     genes |-> <<>>,
     rules |-> NoRules]

\* R1 and R3 both supply M1, R2 drains it and is the objective.
BranchStoichiometry ==
    (<<"M1", "R1">> :> 1) @@ (<<"M1", "R2">> :> -1) @@ (<<"M1", "R3">> :> 1)

BranchModel ==
    [name |-> "branch",
     reactions |-> <<"R1", "R2", "R3">>,
     metabolites |-> <<"M1">>,
     stoichiometry |-> BranchStoichiometry,
     bounds |-> ("R1" :> Bnd(Some(0), Some(2))) @@ ("R2" :> Bnd(Some(0), Some(3)))
                @@ ("R3" :> Bnd(Some(0), Some(1))),
     objective |-> ("R1" :> 0) @@ ("R2" :> 1),
     gpr |-> TRUE,
     genes |-> <<"g1", "g2", "g3">>,
     rules |-> ("R1" :> {{"g3"}}) @@ ("R2" :> {{"g1"}}) @@ ("R3" :> {{"g2"}, {"g3"}})]

\* As BranchModel, with a forced uptake through R1: knocking out R2 is infeasible.
ForcedModel ==
    [name |-> "forced",
     reactions |-> <<"R1", "R2", "R3">>,
     metabolites |-> <<"M1">>,
     stoichiometry |-> BranchStoichiometry,
     bounds |-> ("R1" :> Bnd(Some(1), Some(2))) @@ ("R2" :> Bnd(Some(0), Some(3)))
                @@ ("R3" :> Bnd(Some(0), Some(1))),
     objective |-> ("R2" :> 1),
     gpr |-> FALSE,
     genes |-> <<>>,
     rules |-> NoRules]

\* Null bounds: the wild type is unbounded.
OpenModel ==
    [name |-> "open",
     reactions |-> <<"R1", "R2", "R3">>,
     metabolites |-> <<"M1">>,
     stoichiometry |-> BranchStoichiometry,
     bounds |-> ("R1" :> Bnd(Some(0), None)) @@ ("R2" :> Bnd(Some(0), None))
                @@ ("R3" :> Bnd(None, Some(1))),
     objective |-> ("R2" :> 1),
     gpr |-> TRUE,
     genes |-> <<"g1", "g2", "g3">>,
     rules |-> ("R1" :> {{"g1", "g2"}, {"g3"}}) @@ ("R2" :> {}) @@ ("R3" :> {{"g2"}, {"g3"}})]

Models == {ToyModel, BranchModel, ForcedModel, OpenModel}

-----------------------------------------------------------------------------
(* GurobiSolver.build_problem.  The problem is the gurobipy model: its       *)
(* variables with their committed bounds (lb, ub), the bound changes queued  *)
(* by attribute assignment and not yet processed (pend), the mass-balance    *)
(* constraints, and the objective.                                           *)

LowerOf(b) == IF b[1] # None THEN b[1][1] ELSE -INFINITY

UpperOf(b) == IF b[2] # None THEN b[2][1] ELSE INFINITY

NewProblem(model) ==
    [vars |-> DOMAIN model.bounds,
     lb |-> [r \in DOMAIN model.bounds |-> LowerOf(model.bounds[r])],
     ub |-> [r \in DOMAIN model.bounds |-> UpperOf(model.bounds[r])],
     pend |-> EmptyDict,
     constrs |-> [m \in Range(model.metabolites) |->
                    [r \in {x \in DOMAIN model.bounds :
                              <<m, x>> \in DOMAIN model.stoichiometry} |->
                        model.stoichiometry[<<m, r>>]]],
     obj_lin |-> EmptyDict,
     obj_quad |-> EmptyDict,
     sense |-> GRB_MINIMIZE]

\* Solver.__init__: no problem yet.
NewSolver ==
    [problem |-> None, var_ids |-> None, constr_ids |-> None, model |-> None, builds |-> 0]

\* Mutant of build_problem: a solver already built from the model is kept as
\* it is.
build_problem_cached(self, model) ==
    IF self.model = Some(model.name)
    THEN [self EXCEPT !.builds = @ + 1]
    ELSE [problem |-> Some(NewProblem(model)),
          var_ids |-> Some(model.reactions),
          constr_ids |-> Some(model.metabolites),
          model |-> Some(model.name),
          builds |-> self.builds + 1]

\* The fields model and builds are history, not fields of the class: the name
\* of the model the problem was last built from, and the number of times
\* build_problem has run on the instance.
build_problem(self, model) ==
    [problem |-> Some(NewProblem(model)),
     var_ids |-> Some(model.reactions),
     constr_ids |-> Some(model.metabolites),
     model |-> Some(model.name),
     builds |-> self.builds + 1]

-----------------------------------------------------------------------------
(* The gurobipy model object.  Assigning lpvar.lb / lpvar.ub queues the      *)
(* change; problem.update() and problem.optimize() process the queue;        *)
(* reading lpvar.lb / lpvar.ub returns the committed value.                  *)

SetBounds(p, r, lo, hi) == [p EXCEPT !.pend = (r :> <<lo, hi>>) @@ p.pend]

update(p) ==
    [p EXCEPT !.lb = [r \in p.vars |-> IF r \in DOMAIN p.pend THEN p.pend[r][1] ELSE p.lb[r]],
              !.ub = [r \in p.vars |-> IF r \in DOMAIN p.pend THEN p.pend[r][2] ELSE p.ub[r]],
              !.pend = EmptyDict]

\* The bounds the next optimization will use: committed bounds with the queue applied.
BoundsOf(p) == [r \in p.vars |-> <<update(p).lb[r], update(p).ub[r]>>]

-----------------------------------------------------------------------------
(* The LP/QP engine (external collaborator), as a deterministic function of  *)
(* the problem: exhaustive search over the integer points of the box.  An    *)
(* infinite bound is cut at cap; the problem is unbounded when a larger cap  *)
(* improves the optimum.                                                     *)

IsInf(v) == v >= INFINITY \/ v <= -INFINITY

Cap(p) ==
    1 + SumOver(p.vars, [r \in p.vars |->
            (IF IsInf(p.lb[r]) THEN 0 ELSE Abs(p.lb[r]))
          + (IF IsInf(p.ub[r]) THEN 0 ELSE Abs(p.ub[r]))])

FluxRange(p, r, cap) ==
    (IF IsInf(p.lb[r]) THEN -cap ELSE p.lb[r]) .. (IF IsInf(p.ub[r]) THEN cap ELSE p.ub[r])

RECURSIVE Box(_, _, _)
Box(p, rs, cap) ==
    IF rs = {} THEN {EmptyDict}
    ELSE LET r == CHOOSE x \in rs : TRUE
         IN {(r :> v) @@ x : x \in Box(p, rs \ {r}, cap), v \in FluxRange(p, r, cap)}

Balanced(p, x) ==
    \A m \in DOMAIN p.constrs :
        SumOver(DOMAIN p.constrs[m], [r \in DOMAIN p.constrs[m] |-> p.constrs[m][r] * x[r]]) = 0

Feasible(p, cap) == {x \in Box(p, p.vars, cap) : Balanced(p, x)}

ObjValue(p, x) ==
    SumOver(DOMAIN p.obj_lin, [r \in DOMAIN p.obj_lin |-> p.obj_lin[r] * x[r]])
  + SumOver(DOMAIN p.obj_quad, [k \in DOMAIN p.obj_quad |-> p.obj_quad[k] * x[k[1]] * x[k[2]]])

\* sense * value is minimized: GRB.MAXIMIZE is -1.
Best(p, F) == CHOOSE x \in F : \A y \in F : p.sense * ObjValue(p, x) <= p.sense * ObjValue(p, y)

Solve(p) ==
    LET cap == Cap(p)
        F1 == Feasible(p, cap)
        F2 == Feasible(p, cap + 1)
    IN IF F1 = {} THEN [status |-> GRB_INFEASIBLE]
       ELSE LET x1 == Best(p, F1)
                x2 == Best(p, F2)
            IN IF ObjValue(p, x1) # ObjValue(p, x2) THEN [status |-> GRB_UNBOUNDED]
               ELSE [status |-> GRB_OPTIMAL, ObjVal |-> ObjValue(p, x1), X |-> x1]

ModelNamed(n) == CHOOSE m \in Models : m.name = n

-----------------------------------------------------------------------------
(* Solution (solver.py): status and the optional fields.                     *)

Solution(status, fobj, values, shadow_prices, reduced_costs) ==
    [status |-> status, fobj |-> fobj, values |-> values,
     shadow_prices |-> shadow_prices, reduced_costs |-> reduced_costs]

\* status_mapping, and the lookup with its default.
status_mapping ==
    (GRB_OPTIMAL :> "OPTIMAL") @@ (GRB_UNBOUNDED :> "UNBOUNDED")
    @@ (GRB_INFEASIBLE :> "UNFEASIBLE")

\* Mutant of StatusOf: INF_OR_UNBD is taken for UNBOUNDED.
StatusOfInfOrUnbd(engine_status) ==
    IF engine_status = GRB_INF_OR_UNBD THEN "UNBOUNDED"
    ELSE IF engine_status \in DOMAIN status_mapping THEN status_mapping[engine_status]
    ELSE "UNKNOWN"

StatusOf(engine_status) ==
    IF engine_status \in DOMAIN status_mapping THEN status_mapping[engine_status]
    ELSE "UNKNOWN"

-----------------------------------------------------------------------------
(* What the engine reports for one optimize() call.  "solve" is the exact    *)
(* answer; "presolve" reports an infeasible or unbounded problem as          *)
(* INF_OR_UNBD; "limit" stops on the time limit; "fail" raises GurobiError.  *)

EngineChoices == {"solve", "presolve", "limit", "fail"}

EngineResult(p, eng) ==
    LET r == Solve(p)
    IN CASE eng = "limit" -> [status |-> GRB_TIME_LIMIT]
         [] eng = "presolve" /\ r.status \in {GRB_INFEASIBLE, GRB_UNBOUNDED} ->
                [status |-> GRB_INF_OR_UNBD]
         [] OTHER -> r

\* The dual values are opaque: Pi of a constraint, RC of a variable.
Pi(m) == <<"Pi", m>>
RC(r) == <<"RC", r>>

-----------------------------------------------------------------------------
(* One activation of GurobiSolver._generic_solve.  pc is the position in     *)
(* the method.  old_constraints is None while the local is unbound.  via,    *)
(* arg, pre, eng and engine_status are history: the entry point and its      *)
(* deletion set, the solver at entry, the engine's behaviour and the status  *)
(* it reported (0: none).                                                    *)

IdleCall ==
    [pc |-> "idle", via |-> "none", quad_obj |-> None, lin_obj |-> None,
     sense |-> GRB_MAXIMIZE, model |-> None, constraints |-> None,
     get_shadow_prices |-> FALSE, get_reduced_costs |-> FALSE,
     old_constraints |-> None, todo |-> {}, solution |-> None,
     error |-> "none", arg |-> {}, eng |-> "none", engine_status |-> 0,
     pre |-> NewSolver]

_generic_solve(via, quad_obj, lin_obj, sense, model, constraints, sp, rc, s) ==
    [IdleCall EXCEPT !.pc = "begin", !.via = via, !.quad_obj = quad_obj,
                     !.lin_obj = lin_obj, !.sense = sense, !.model = model,
                     !.constraints = constraints, !.get_shadow_prices = sp,
                     !.get_reduced_costs = rc, !.pre = s]

\* Mutant of solve_lp: the sense of solve_qp.
solve_lp_minimizing(via, objective, model, constraints, sp, rc, s) ==
    _generic_solve(via, None, objective, GRB_MINIMIZE, model, constraints, sp, rc, s)

\* solve_lp and solve_qp (lines 46-55).
solve_lp(via, objective, model, constraints, sp, rc, s) ==
    _generic_solve(via, None, objective, GRB_MAXIMIZE, model, constraints, sp, rc, s)

solve_qp(via, quad_obj, lin_obj, model, constraints, sp, rc, s) ==
    _generic_solve(via, quad_obj, lin_obj, GRB_MINIMIZE, model, constraints, sp, rc, s)

\* Python truth value of an optional dict: None and {} are both false.
Truthy(d) == d # None /\ DOMAIN d[1] # {}

Raise(f, err) == [f EXCEPT !.pc = "raised", !.error = err]

\* Mutant of Begin: the problem built by an earlier call is not looked at.
BeginNeedsModel(s, f) ==
    IF f.model # None
    THEN [s |-> build_problem(s, ModelNamed(f.model[1])),
          f |-> IF Truthy(f.constraints)
                THEN [f EXCEPT !.pc = "override",
                               !.old_constraints = Some(EmptyDict),
                               !.todo = DOMAIN f.constraints[1]]
                ELSE [f EXCEPT !.pc = "objective"]]
    ELSE [s |-> s, f |-> Raise(f, "Exception")]

\* Lines 60-69: rebuild when a model is given; fail when there is no problem;
\* with overrides, start the loop over them with an empty old_constraints.
Begin(s, f) ==
    LET s1 == IF f.model # None THEN build_problem(s, ModelNamed(f.model[1])) ELSE s
    IN IF s1.problem # None
       THEN [s |-> s1,
             f |-> IF Truthy(f.constraints)
                   THEN [f EXCEPT !.pc = "override",
                                  !.old_constraints = Some(EmptyDict),
                                  !.todo = DOMAIN f.constraints[1]]
                   ELSE [f EXCEPT !.pc = "objective"]]
       ELSE [s |-> s1, f |-> Raise(f, "Exception")]

\* Mutant of Override: line 74 is left out, the upper bound is kept.
OverrideKeepsUpper(s, f, r) ==
    LET p == s.problem[1]
        c == f.constraints[1][r]
        p1 == SetBounds(p, r, LowerOf(c), p.ub[r])
        left == f.todo \ {r}
    IN IF r \notin p.vars
       THEN [s |-> s, f |-> Raise(f, "AttributeError")]
       ELSE [s |-> [s EXCEPT !.problem = Some(IF left = {} THEN update(p1) ELSE p1)],
             f |-> [f EXCEPT !.old_constraints = Some((r :> <<p.lb[r], p.ub[r]>>) @@ @[1]),
                             !.todo = left,
                             !.pc = IF left = {} THEN "objective" ELSE "override"]]

\* Lines 70-75: one iteration of the loop over constraints.items(), for the
\* item r; the update() of line 75 follows the last iteration.
Override(s, f, r) ==
    LET p == s.problem[1]
        c == f.constraints[1][r]
        p1 == SetBounds(p, r, LowerOf(c), UpperOf(c))
        left == f.todo \ {r}
    IN IF r \notin p.vars
       THEN [s |-> s, f |-> Raise(f, "AttributeError")]
       ELSE [s |-> [s EXCEPT !.problem = Some(IF left = {} THEN update(p1) ELSE p1)],
             f |-> [f EXCEPT !.old_constraints = Some((r :> <<p.lb[r], p.ub[r]>>) @@ @[1]),
                             !.todo = left,
                             !.pc = IF left = {} THEN "objective" ELSE "override"]]

\* The terms of an objective dict with a non-zero coefficient.
NonZero(d) ==
    IF d = None THEN EmptyDict
    ELSE [k \in {x \in DOMAIN d[1] : d[1][x] # 0} |-> d[1][k]]

\* Lines 78-83: the objective is rebuilt from this call's arguments.
SetObjective(s, f) ==
    LET p == s.problem[1]
        quad == NonZero(f.quad_obj)
        lin == NonZero(f.lin_obj)
    IN IF (\E k \in DOMAIN quad : k[1] \notin p.vars \/ k[2] \notin p.vars)
          \/ (\E r \in DOMAIN lin : r \notin p.vars)
       THEN [s |-> s, f |-> Raise(f, "TypeError")]
       ELSE [s |-> [s EXCEPT !.problem = Some([p EXCEPT !.obj_quad = quad,
                                                       !.obj_lin = lin,
                                                       !.sense = f.sense])],
             f |-> [f EXCEPT !.pc = "optimize"]]

\* Mutant of Extract: the two optional outputs answer each other's flag.
ExtractSwapped(s, f, r) ==
    LET status == StatusOf(r.status)
        var_ids == s.var_ids[1]
        constr_ids == s.constr_ids[1]
    IN IF status = "OPTIMAL"
       THEN Solution(status,
                     Some(r.ObjVal),
                     Some([i \in DOMAIN var_ids |-> <<var_ids[i], r.X[var_ids[i]]>>]),
                     IF f.get_reduced_costs
                     THEN Some([i \in DOMAIN constr_ids |-> <<constr_ids[i], Pi(constr_ids[i])>>])
                     ELSE None,
                     IF f.get_shadow_prices
                     THEN Some([i \in DOMAIN var_ids |-> <<var_ids[i], RC(var_ids[i])>>])
                     ELSE None)
       ELSE Solution(status, None, None, None, None)

\* Lines 89-96: the Solution for a status.
Extract(s, f, r) ==
    LET status == StatusOf(r.status)
        var_ids == s.var_ids[1]
        constr_ids == s.constr_ids[1]
    IN IF status = "OPTIMAL"
       THEN Solution(status,
                     Some(r.ObjVal),
                     Some([i \in DOMAIN var_ids |-> <<var_ids[i], r.X[var_ids[i]]>>]),
                     IF f.get_shadow_prices
                     THEN Some([i \in DOMAIN constr_ids |-> <<constr_ids[i], Pi(constr_ids[i])>>])
                     ELSE None,
                     IF f.get_reduced_costs
                     THEN Some([i \in DOMAIN var_ids |-> <<var_ids[i], RC(var_ids[i])>>])
                     ELSE None)
       ELSE Solution(status, None, None, None, None)

\* Mutant of AfterSolve: the restore block is skipped.
AfterSolveNoRestore(f) == "returned"

\* Mutant of AfterSolve: line 99 tests for None where line 68 tests for truth.
AfterSolveNotNone(f) == IF f.constraints # None THEN "restore" ELSE "returned"

\* Where a call goes after the Solution is made (line 99).
AfterSolve(f) == IF Truthy(f.constraints) THEN "restore" ELSE "returned"

\* Lines 86-96: optimize() processes the queued changes and solves; then the
\* status is normalized and the Solution extracted.
Optimize(s, f, eng) ==
    LET p == update(s.problem[1])
        s1 == [s EXCEPT !.problem = Some(p)]
    IN IF eng = "fail"
       THEN [s |-> s1, f |-> [Raise(f, "GurobiError") EXCEPT !.eng = eng]]
       ELSE LET r == EngineResult(p, eng)
            IN IF StatusOf(r.status) = "OPTIMAL"
                  /\ \E i \in DOMAIN s.var_ids[1] : s.var_ids[1][i] \notin p.vars
               THEN [s |-> s1, f |-> [Raise(f, "AttributeError") EXCEPT !.eng = eng]]
               ELSE [s |-> s1,
                     f |-> [f EXCEPT !.eng = eng,
                                     !.engine_status = r.status,
                                     !.solution = Some(Extract(s, f, r)),
                                     !.pc = AfterSolve(f)]]

\* Mutant of Saved: the override is written back instead of the saved bounds.
SavedIsOverride(f, r) == <<LowerOf(f.constraints[1][r]), UpperOf(f.constraints[1][r])>>

\* The bounds written back by lines 100-102 for reaction r.
Saved(f, r) == f.old_constraints[1][r]

\* Mutant of Restore: the update() of line 103 is left out.
RestoreWithoutUpdate(s, f) ==
    IF f.old_constraints = None
    THEN [s |-> s, f |-> Raise(f, "UnboundLocalError")]
    ELSE LET p == s.problem[1]
             old == DOMAIN f.old_constraints[1]
             p1 == [p EXCEPT !.pend = [r \in old |-> f.old_constraints[1][r]] @@ p.pend]
         IN IF old \subseteq p.vars
            THEN [s |-> [s EXCEPT !.problem = Some(p1)],
                  f |-> [f EXCEPT !.pc = "returned"]]
            ELSE [s |-> s, f |-> Raise(f, "AttributeError")]

\* Lines 99-105: the saved bounds are written back and the Solution returned.
\* Reading an unbound old_constraints raises, and so does a saved reaction
\* the problem no longer has (getVarByName gives None).
Restore(s, f) ==
    IF f.old_constraints = None
    THEN [s |-> s, f |-> Raise(f, "UnboundLocalError")]
    ELSE LET p == s.problem[1]
             old == DOMAIN f.old_constraints[1]
             p1 == [p EXCEPT !.pend = [r \in old |-> Saved(f, r)] @@ p.pend]
         IN IF old \subseteq p.vars
            THEN [s |-> [s EXCEPT !.problem = Some(update(p1))],
                  f |-> [f EXCEPT !.pc = "returned"]]
            ELSE [s |-> s, f |-> Raise(f, "AttributeError")]

\* A whole call run to its end, the overrides taken in some order, with the
\* engine behaving as eng.
RECURSIVE Run(_, _, _)
Run(s, f, eng) ==
    CASE f.pc = "begin" -> LET r == Begin(s, f) IN Run(r.s, r.f, eng)
      [] f.pc = "override" ->
            LET r == Override(s, f, CHOOSE x \in f.todo : TRUE) IN Run(r.s, r.f, eng)
      [] f.pc = "objective" -> LET r == SetObjective(s, f) IN Run(r.s, r.f, eng)
      [] f.pc = "optimize" -> LET r == Optimize(s, f, eng) IN Run(r.s, r.f, eng)
      [] f.pc = "restore" -> LET r == Restore(s, f) IN Run(r.s, r.f, eng)
      [] OTHER -> [s |-> s, f |-> f]

-----------------------------------------------------------------------------
(* The simulation and deletion layers (spec sections 4.2 and 4.3), called    *)
(* with a supplied solver: they solve on its built problem.                  *)

FBA(via, model, constraints, s) ==
    solve_lp(via, Some(model.objective), None, constraints, FALSE, FALSE, s)

Knockout == Bnd(Some(0), Some(0))

reaction_deletion(via, model, reaction_ids, s) ==
    [FBA(via, model, Some([r \in reaction_ids |-> Knockout]), s)
        EXCEPT !.arg = reaction_ids]

\* A reaction is inactive when it has a rule and every alternative of the
\* rule contains a deleted gene.
InactiveReactions(model, gene_ids) ==
    {r \in Range(model.reactions) :
        model.rules[r] # {} /\ \A conj \in model.rules[r] : conj \cap gene_ids # {}}

gene_deletion(via, model, gene_ids, s) ==
    [reaction_deletion(via, model, InactiveReactions(model, gene_ids), s)
        EXCEPT !.arg = gene_ids]

-----------------------------------------------------------------------------
(* The arguments the callers use.                                            *)

ObjGrowth == ("R2" :> 1)
ObjZeroTerm == ("R1" :> 0) @@ ("R2" :> 1) @@ ("RX" :> 0)
ObjUnknown == ("R2" :> 1) @@ ("RX" :> 1)

LinObjectives == {Some(ObjGrowth), Some(ObjZeroTerm), Some(ObjUnknown)}

QuadObjectives ==
    {Some((<<"R1", "R1">> :> 1) @@ (<<"R2", "R2">> :> 1) @@ (<<"R1", "RX">> :> 0))}

ModelArgs == {None, Some("toy"), Some("branch")}

ConstraintArgs ==
    {None,
     Some(EmptyDict),
     Some("R1" :> Knockout),
     Some("R1" :> Bnd(None, None)),
     Some(("R2" :> Bnd(Some(1), Some(2))) @@ ("R3" :> Bnd(Some(0), None))),
     Some(("R1" :> Knockout) @@ ("RX" :> Knockout))}

Flags == {<<FALSE, FALSE>>, <<TRUE, FALSE>>, <<FALSE, TRUE>>, <<TRUE, TRUE>>}

\* The solve_lp calls: every objective, model and override without the
\* optional outputs, and the optional outputs on the growth objective.
SolveLpArgs ==
    {[objective |-> o, model |-> m, constraints |-> c, flags |-> <<FALSE, FALSE>>] :
        o \in LinObjectives, m \in ModelArgs, c \in ConstraintArgs}
    \cup
    {[objective |-> Some(ObjGrowth), model |-> None, constraints |-> c, flags |-> fl] :
        c \in {None, Some("R1" :> Knockout)}, fl \in Flags}

SolveQpArgs ==
    {[quad_obj |-> q, lin_obj |-> l, model |-> m, constraints |-> c] :
        q \in QuadObjectives, l \in {None, Some(ObjGrowth)}, m \in ModelArgs,
        c \in {None, Some("R1" :> Knockout), Some(("R1" :> Knockout) @@ ("RX" :> Knockout))}}

-----------------------------------------------------------------------------
(* The state machine.  solver is the GurobiSolver instance in use, call the  *)
(* activation of _generic_solve in progress or last finished, scan the       *)
(* essentiality scan, ops the number of top-level calls made so far.  other  *)
(* and overlapped belong to the two-path specification further down and stay *)
(* as they start in this one.                                                *)

\* results and engs are history: the Solution of each knockout made so far,
\* and the engine's behaviour in each solve made so far, the wild type first.
NoScan ==
    [pc |-> "none", model |-> "toy", requested |-> "reactions", kind |-> "reactions",
     min_growth |-> <<1, 100>>, constraints |-> None, wt_solution |-> None,
     wt_growth |-> None, elements |-> <<>>, i |-> 0, essential |-> <<>>,
     results |-> <<>>, engs |-> <<>>, error |-> "none"]

Init ==
    /\ solver = NewSolver
    /\ call = IdleCall
    /\ scan = NoScan
    /\ ops = 0
    /\ other = IdleCall
    /\ overlapped = FALSE

\* A client that holds the solver may call it between calls, not during a scan.
ClientMayCall == call.pc = "idle" /\ scan.pc = "none" /\ ops < MaxOps

Built == solver.problem # None

CallBuildProblem ==
    /\ ClientMayCall
    /\ \E m \in Models : solver' = build_problem(solver, m)
    /\ call' = IdleCall
    /\ ops' = ops + 1
    /\ UNCHANGED <<scan, seq>>

CallSolveLp ==
    /\ ClientMayCall
    /\ \E a \in SolveLpArgs :
          call' = solve_lp("solve_lp", a.objective, a.model, a.constraints,
                           a.flags[1], a.flags[2], solver)
    /\ ops' = ops + 1
    /\ UNCHANGED <<solver, scan, seq>>

CallSolveQp ==
    /\ ClientMayCall
    /\ \E a \in SolveQpArgs :
          call' = solve_qp("solve_qp", a.quad_obj, a.lin_obj, a.model, a.constraints,
                           FALSE, TRUE, solver)
    /\ ops' = ops + 1
    /\ UNCHANGED <<solver, scan, seq>>

CallFBA ==
    /\ ClientMayCall
    /\ Built
    /\ \E constraints \in ConstraintArgs :
          call' = FBA("FBA", ModelNamed(solver.model[1]), constraints, solver)
    /\ ops' = ops + 1
    /\ UNCHANGED <<solver, scan, seq>>

CallReactionDeletion ==
    /\ ClientMayCall
    /\ Built
    /\ LET model == ModelNamed(solver.model[1])
       IN \E ids \in SUBSET Range(model.reactions) :
             call' = reaction_deletion("reaction_deletion", model, ids, solver)
    /\ ops' = ops + 1
    /\ UNCHANGED <<solver, scan, seq>>

CallGeneDeletion ==
    /\ ClientMayCall
    /\ Built
    /\ LET model == ModelNamed(solver.model[1])
       IN /\ model.gpr
          /\ \E ids \in SUBSET Range(model.genes) :
                call' = gene_deletion("gene_deletion", model, ids, solver)
    /\ ops' = ops + 1
    /\ UNCHANGED <<solver, scan, seq>>

GenericSolveBegin ==
    /\ call.pc = "begin"
    /\ LET r == Begin(solver, call)
       IN solver' = r.s /\ call' = r.f
    /\ UNCHANGED <<scan, ops, seq>>

GenericSolveOverride ==
    /\ call.pc = "override"
    /\ \E id \in call.todo :
          LET r == Override(solver, call, id)
          IN solver' = r.s /\ call' = r.f
    /\ UNCHANGED <<scan, ops, seq>>

GenericSolveObjective ==
    /\ call.pc = "objective"
    /\ LET r == SetObjective(solver, call)
       IN solver' = r.s /\ call' = r.f
    /\ UNCHANGED <<scan, ops, seq>>

GenericSolveOptimizeAs(eng) ==
    /\ call.pc = "optimize"
    /\ LET r == Optimize(solver, call, eng)
       IN solver' = r.s /\ call' = r.f
    /\ UNCHANGED <<scan, ops, seq>>

GenericSolveOptimize == \E eng \in EngineChoices : GenericSolveOptimizeAs(eng)

GenericSolveRestore ==
    /\ call.pc = "restore"
    /\ LET r == Restore(solver, call)
       IN solver' = r.s /\ call' = r.f
    /\ UNCHANGED <<scan, ops, seq>>

-----------------------------------------------------------------------------
(* essentiality (essentiality.py, lines 43-81).                              *)

MinGrowths == {<<1, 100>>, <<2, 3>>}

ScanConstraints ==
    {None, Some("R3" :> Knockout), Some("R1" :> Bnd(Some(0), Some(2)))}

\* Mutant of BelowThreshold: the comparison is not strict.
BelowOrAtThreshold(fobj, min_growth, wt_growth) ==
    fobj * min_growth[2] <= min_growth[1] * wt_growth

\* fobj < min_growth * wt_growth, for a rational min_growth <<num, den>>.
BelowThreshold(fobj, min_growth, wt_growth) ==
    fobj * min_growth[2] < min_growth[1] * wt_growth

\* Mutant of Classify: the objective is compared whatever the status, which
\* raises on the absent fobj of a non-optimal Solution.
ClassifyComparesFirst(solution, min_growth, wt_growth) ==
    IF solution = None THEN "viable"
    ELSE IF solution[1].fobj = None \/ wt_growth = None THEN "TypeError"
         ELSE IF BelowThreshold(solution[1].fobj[1], min_growth, wt_growth[1])
                 \/ solution[1].status = "UNFEASIBLE"
              THEN "essential" ELSE "viable"

\* Mutant of Classify: an absent wt_growth counts as zero.
ClassifyAbsentAsZero(solution, min_growth, wt_growth) ==
    IF solution = None THEN "viable"
    ELSE IF solution[1].status = "OPTIMAL"
         THEN IF BelowThreshold(solution[1].fobj[1], min_growth,
                                IF wt_growth = None THEN 0 ELSE wt_growth[1])
              THEN "essential" ELSE "viable"
         ELSE IF solution[1].status = "UNFEASIBLE" THEN "essential" ELSE "viable"

\* Lines 76-78: the verdict on one knockout Solution (None when absent).
\* Multiplying by an absent wt_growth raises TypeError.
Classify(solution, min_growth, wt_growth) ==
    IF solution = None THEN "viable"
    ELSE IF solution[1].status = "OPTIMAL"
         THEN IF wt_growth = None THEN "TypeError"
              ELSE IF BelowThreshold(solution[1].fobj[1], min_growth, wt_growth[1])
                   THEN "essential"
                   ELSE IF solution[1].status = "UNFEASIBLE" THEN "essential" ELSE "viable"
         ELSE IF solution[1].status = "UNFEASIBLE" THEN "essential" ELSE "viable"

\* Mutant of append: the element is put in front.
prepend(essential, elem) == <<elem>> \o essential

\* Line 79.
append(essential, elem) == Append(essential, elem)

\* Mutant of EffectiveKind: the model's gene-reaction support is not looked at.
EffectiveKindAsAsked(model, kind) == kind

\* Lines 62-66: the kind and the elements scanned.
EffectiveKind(model, kind) == IF kind = "genes" /\ model.gpr THEN "genes" ELSE "reactions"

Elements(model, kind) ==
    IF EffectiveKind(model, kind) = "genes" THEN model.genes ELSE model.reactions

\* Lines 71-74: the deletion call for one element.
Deletion(model, kind, elem, s) ==
    IF kind = "genes" THEN gene_deletion("knockout", model, {elem}, s)
    ELSE reaction_deletion("knockout", model, {elem}, s)

\* Lines 70-81 as a function: the loop from element i on, the solver being s
\* and engs[i + 1] the engine's behaviour in the knockout of element i.
RECURSIVE Knockouts(_, _, _, _, _, _, _, _)
Knockouts(model, kind, min_growth, wt_growth, s, engs, i, essential) ==
    LET elements == Elements(model, kind)
    IN IF i > Len(elements)
       THEN [pc |-> "done", essential |-> essential, error |-> "none"]
       ELSE LET r == Run(s, Deletion(model, EffectiveKind(model, kind), elements[i], s),
                         engs[i + 1])
            IN IF r.f.pc = "raised"
               THEN [pc |-> "raised", essential |-> essential, error |-> r.f.error]
               ELSE LET verdict == Classify(r.f.solution, min_growth, wt_growth)
                    IN IF verdict = "TypeError"
                       THEN [pc |-> "raised", essential |-> essential,
                             error |-> "TypeError"]
                       ELSE Knockouts(model, kind, min_growth, wt_growth, r.s, engs, i + 1,
                                      IF verdict = "essential"
                                      THEN append(essential, elements[i])
                                      ELSE essential)

\* essentiality (lines 43-81) as a function of its arguments and of the
\* engine's behaviour in each of its solves: how it ends, and the list.
essentiality(model, kind, min_growth, constraints, engs) ==
    LET s == build_problem(NewSolver, model)
        wt == Run(s, FBA("wild_type", model, constraints, s), engs[1])
    IN IF wt.f.pc = "raised"
       THEN [pc |-> "raised", essential |-> <<>>, error |-> wt.f.error]
       ELSE Knockouts(model, kind, min_growth, wt.f.solution[1].fobj, wt.s, engs, 1, <<>>)

\* essential_genes and essential_reactions (lines 14-40).
essential_genes(model, min_growth, constraints, engs) ==
    essentiality(model, "genes", min_growth, constraints, engs)

essential_reactions(model, min_growth, constraints, engs) ==
    essentiality(model, "reactions", min_growth, constraints, engs)

\* Mutant of EssentialityStart: line 57 is left out.
EssentialityStartUnbuilt ==
    /\ call.pc = "idle" /\ scan.pc = "none" /\ ops = 0
    /\ \E m \in Models, kind \in {"genes", "reactions"}, min_growth \in MinGrowths,
          constraints \in ScanConstraints :
          /\ solver' = NewSolver
          /\ call' = FBA("wild_type", m, constraints, NewSolver)
          /\ scan' = [NoScan EXCEPT !.pc = "wt", !.model = m.name, !.requested = kind,
                                    !.kind = kind, !.min_growth = min_growth,
                                    !.constraints = constraints]
    /\ ops' = ops + 1
    /\ UNCHANGED seq

\* Lines 56-59: a new solver is built and the wild-type FBA called.
EssentialityStart ==
    /\ call.pc = "idle" /\ scan.pc = "none" /\ ops = 0
    /\ \E m \in Models, kind \in {"genes", "reactions"}, min_growth \in MinGrowths,
          constraints \in ScanConstraints :
          /\ solver' = build_problem(NewSolver, m)
          /\ call' = FBA("wild_type", m, constraints, build_problem(NewSolver, m))
          /\ scan' = [NoScan EXCEPT !.pc = "wt", !.model = m.name, !.requested = kind,
                                    !.kind = kind, !.min_growth = min_growth,
                                    !.constraints = constraints]
    /\ ops' = ops + 1
    /\ UNCHANGED seq

\* Lines 59-68: the wild-type Solution is back.
EssentialityWildType ==
    /\ scan.pc = "wt" /\ call.pc = "returned"
    /\ LET model == ModelNamed(scan.model)
       IN scan' = [scan EXCEPT !.pc = "loop",
                               !.wt_solution = call.solution,
                               !.wt_growth = call.solution[1].fobj,
                               !.kind = EffectiveKind(model, scan.requested),
                               !.elements = Elements(model, scan.requested),
                               !.engs = <<call.eng>>,
                               !.i = 1]
    /\ call' = IdleCall
    /\ UNCHANGED <<solver, ops, seq>>

\* Lines 70-74: the next element is knocked out; line 81 when none is left.
EssentialityKnockout ==
    /\ scan.pc = "loop" /\ call.pc = "idle"
    /\ IF scan.i <= Len(scan.elements)
       THEN /\ call' = Deletion(ModelNamed(scan.model), scan.kind,
                                scan.elements[scan.i], solver)
            /\ scan' = [scan EXCEPT !.pc = "ko"]
       ELSE /\ scan' = [scan EXCEPT !.pc = "done"]
            /\ call' = call
    /\ UNCHANGED <<solver, ops, seq>>

\* Lines 76-79: the knockout Solution is classified.
EssentialityClassify ==
    /\ scan.pc = "ko" /\ call.pc = "returned"
    /\ LET verdict == Classify(call.solution, scan.min_growth, scan.wt_growth)
           elem == scan.elements[scan.i]
           seen == Append(scan.results,
                          [elem |-> elem, solution |-> call.solution, eng |-> call.eng])
       IN scan' = IF verdict = "TypeError"
                  THEN [scan EXCEPT !.pc = "raised", !.error = "TypeError",
                                    !.results = seen, !.engs = Append(@, call.eng)]
                  ELSE [scan EXCEPT !.pc = "loop", !.i = @ + 1, !.results = seen,
                                    !.engs = Append(@, call.eng),
                                    !.essential = IF verdict = "essential"
                                                  THEN append(@, elem) ELSE @]
    /\ call' = IdleCall
    /\ UNCHANGED <<solver, ops, seq>>

\* An exception of the wild-type or a knockout solve leaves essentiality.
EssentialityRaises ==
    /\ scan.pc \in {"wt", "ko"} /\ call.pc = "raised"
    /\ scan' = [scan EXCEPT !.pc = "raised", !.error = call.error,
                            !.engs = Append(@, call.eng)]
    /\ call' = IdleCall
    /\ UNCHANGED <<solver, ops, seq>>

\* The caller takes the Solution or the exception of a client call.
ClientResumes ==
    /\ call.pc \in {"returned", "raised"}
    /\ scan.pc = "none"
    /\ call' = IdleCall
    /\ UNCHANGED <<solver, scan, ops, seq>>

Next ==
    \/ CallBuildProblem
    \/ CallSolveLp
    \/ CallSolveQp
    \/ CallFBA
    \/ CallReactionDeletion
    \/ CallGeneDeletion
    \/ GenericSolveBegin
    \/ GenericSolveOverride
    \/ GenericSolveObjective
    \/ GenericSolveOptimize
    \/ GenericSolveRestore
    \/ ClientResumes
    \/ EssentialityStart
    \/ EssentialityWildType
    \/ EssentialityKnockout
    \/ EssentialityClassify
    \/ EssentialityRaises

Spec == Init /\ [][Next]_vars

-----------------------------------------------------------------------------
(* Two call paths on one solver instance.  Each path makes one solve_lp      *)
(* call, call being the activation of the first path and other that of the   *)
(* second; their steps interleave freely.  overlapped is history: a call was *)
(* started while the other path's call was in progress.                      *)

Active(f) == f.pc \in {"begin", "override", "objective", "optimize", "restore"}

PathModels == {ToyModel, BranchModel}

PathArgs ==
    {[model |-> None, constraints |-> c] :
        c \in {None,
               Some("R1" :> Knockout),
               Some(("R2" :> Bnd(Some(1), Some(2))) @@ ("R3" :> Bnd(Some(0), None)))}}
    \cup {[model |-> Some("branch"), constraints |-> Some("R1" :> Knockout)]}

PathBuild ==
    /\ ~Built /\ call.pc = "idle" /\ other.pc = "idle" /\ scan.pc = "none"
    /\ \E m \in PathModels : solver' = build_problem(solver, m)
    /\ UNCHANGED <<call, scan, ops, other, overlapped>>

FirstPathSolves ==
    /\ Built /\ call.pc = "idle" /\ scan.pc = "none"
    /\ \E a \in PathArgs :
          call' = solve_lp("solve_lp", Some(ObjGrowth), a.model, a.constraints,
                           FALSE, FALSE, solver)
    /\ overlapped' = (overlapped \/ Active(other))
    /\ UNCHANGED <<solver, scan, ops, other>>

SecondPathSolves ==
    /\ Built /\ other.pc = "idle" /\ scan.pc = "none"
    /\ \E a \in PathArgs :
          other' = solve_lp("solve_lp", Some(ObjGrowth), a.model, a.constraints,
                            FALSE, FALSE, solver)
    /\ overlapped' = (overlapped \/ Active(call))
    /\ UNCHANGED <<solver, scan, ops, call>>

OtherBegin ==
    /\ other.pc = "begin"
    /\ LET r == Begin(solver, other)
       IN solver' = r.s /\ other' = r.f
    /\ UNCHANGED <<call, scan, ops, overlapped>>

OtherOverride ==
    /\ other.pc = "override"
    /\ \E id \in other.todo :
          LET r == Override(solver, other, id)
          IN solver' = r.s /\ other' = r.f
    /\ UNCHANGED <<call, scan, ops, overlapped>>

OtherObjective ==
    /\ other.pc = "objective"
    /\ LET r == SetObjective(solver, other)
       IN solver' = r.s /\ other' = r.f
    /\ UNCHANGED <<call, scan, ops, overlapped>>

OtherOptimize ==
    /\ other.pc = "optimize"
    /\ \E eng \in EngineChoices :
          LET r == Optimize(solver, other, eng)
          IN solver' = r.s /\ other' = r.f
    /\ UNCHANGED <<call, scan, ops, overlapped>>

OtherRestore ==
    /\ other.pc = "restore"
    /\ LET r == Restore(solver, other)
       IN solver' = r.s /\ other' = r.f
    /\ UNCHANGED <<call, scan, ops, overlapped>>

NextTwoPaths ==
    \/ PathBuild
    \/ FirstPathSolves
    \/ SecondPathSolves
    \/ GenericSolveBegin
    \/ GenericSolveOverride
    \/ GenericSolveObjective
    \/ GenericSolveOptimize
    \/ GenericSolveRestore
    \/ OtherBegin
    \/ OtherOverride
    \/ OtherObjective
    \/ OtherOptimize
    \/ OtherRestore

SpecTwoPaths == Init /\ [][NextTwoPaths]_vars

-----------------------------------------------------------------------------
(* Properties.                                                               *)

\* The bounds lpvar.lb / lpvar.ub read for every variable of a problem.
Committed(p) == [r \in p.vars |-> <<p.lb[r], p.ub[r]>>]

\* The bounds a call applies its overrides to: those of the rebuilt problem
\* when a model is supplied, those found at entry otherwise.
StartBounds(f) ==
    IF f.model # None THEN Committed(NewProblem(ModelNamed(f.model[1])))
    ELSE Committed(f.pre.problem[1])

Overridden(f) == DOMAIN f.constraints[1]

StatusIs(f, status) == f.solution # None /\ f.solution[1].status = status

\* C1 (as amended): when a solve with temporary constraints C returns a
\* Solution, every reaction of C has the bounds the overrides were applied to
\* (the bounds before the call when no model is supplied, the bounds
\* build_problem sets from the supplied model otherwise) and no bound change
\* is left queued, whatever the status and also for null overriding bounds.
C1_Rollback ==
    (call.pc = "returned" /\ Truthy(call.constraints)) =>
        /\ solver.problem[1].pend = EmptyDict
        /\ \A r \in Overridden(call) :
              Committed(solver.problem[1])[r] = StartBounds(call)[r]

\* C1 as stated: the bounds of every reaction of C are the same before and
\* after the call.
C1_SameAsBeforeCall ==
    (call.pc = "returned" /\ Truthy(call.constraints)) =>
        \A r \in Overridden(call) :
            (call.pre.problem # None /\ r \in call.pre.problem[1].vars) =>
                Committed(solver.problem[1])[r] = Committed(call.pre.problem[1])[r]

\* A non-optimal solve has returned whose null override had replaced
\* different bounds, on a problem that was not rebuilt.
C1_Witness ==
    /\ call.pc = "returned"
    /\ call.model = None
    /\ call.constraints = Some("R1" :> Bnd(None, None))
    /\ call.old_constraints = Some("R1" :> <<0, 2>>)
    /\ StatusIs(call, "UNKNOWN")

\* C2: when a solve with temporary constraints raises after the problem
\* check, every reaction has the bounds the call started from and nothing is
\* left queued.
C2_RestoredOnFailure ==
    (call.pc = "raised" /\ Truthy(call.constraints) /\ call.error # "Exception") =>
        /\ solver.problem[1].pend = EmptyDict
        /\ Committed(solver.problem[1]) = StartBounds(call)

BuiltBounds(name) == Committed(NewProblem(ModelNamed(name)))

\* One knockout on a freshly built solver, with the engine behaving as eng.
FreshKnockout(model, kind, elem, eng) ==
    Run(build_problem(NewSolver, model),
        Deletion(model, kind, elem, build_problem(NewSolver, model)), eng).f

\* C3: in a scan every knockout solve starts from the bounds build_problem
\* set from the model, with no change queued, and its Solution is the one
\* the same knockout gives on a freshly built solver.
C3_NoLeak ==
    /\ (scan.pc = "ko" /\ call.pc = "begin") =>
          /\ Committed(solver.problem[1]) = BuiltBounds(scan.model)
          /\ solver.problem[1].pend = EmptyDict
    /\ (scan.pc = "ko" /\ call.pc = "returned") =>
          call.solution =
              FreshKnockout(ModelNamed(scan.model), scan.kind,
                            scan.elements[scan.i], call.eng).solution

\* The third knockout of a scan starts after an infeasible and an unknown one.
C3_Witness ==
    /\ scan.pc = "ko" /\ call.pc = "begin" /\ scan.i = 3
    /\ scan.constraints # None
    /\ scan.results[1].solution[1].status = "UNKNOWN"
    /\ scan.results[2].solution[1].status = "UNFEASIBLE"

\* The rule of the claim: non-null, and OPTIMAL below the threshold or INFEASIBLE.
SaidEssential(solution, min_growth, wt_growth) ==
    /\ solution # None
    /\ \/ /\ solution[1].status = "OPTIMAL"
          /\ wt_growth # None
          /\ solution[1].fobj[1] * min_growth[2] < min_growth[1] * wt_growth[1]
       \/ solution[1].status = "UNFEASIBLE"

\* Solutions to classify, objective values in tenths.
Sol(status, fobj) == Some(Solution(status, fobj, None, None, None))

\* C4: an element is in the returned list exactly when its knockout Solution
\* is non-null and OPTIMAL with fobj < min_growth * wt_growth, or INFEASIBLE;
\* with min_growth 0.5 and wt_growth 10, fobj 4.9 is essential, 5.1 and 5.0
\* are not, INFEASIBLE is essential whatever fobj, and UNBOUNDED, UNKNOWN and
\* a null solution are not.
C4_Classification ==
    /\ scan.pc = "done" =>
          \A k \in DOMAIN scan.results :
              (scan.results[k].elem \in Range(scan.essential))
                  <=> SaidEssential(scan.results[k].solution, scan.min_growth,
                                    scan.wt_growth)
    /\ Classify(Sol("OPTIMAL", Some(49)), <<1, 2>>, Some(100)) = "essential"
    /\ Classify(Sol("OPTIMAL", Some(51)), <<1, 2>>, Some(100)) = "viable"
    /\ Classify(Sol("OPTIMAL", Some(50)), <<1, 2>>, Some(100)) = "viable"
    /\ Classify(Sol("UNFEASIBLE", Some(51)), <<1, 2>>, Some(100)) = "essential"
    /\ Classify(Sol("UNFEASIBLE", None), <<1, 2>>, Some(100)) = "essential"
    /\ Classify(Sol("UNBOUNDED", None), <<1, 2>>, Some(100)) = "viable"
    /\ Classify(Sol("UNKNOWN", None), <<1, 2>>, Some(100)) = "viable"
    /\ Classify(None, <<1, 2>>, Some(100)) = "viable"

\* A scan has returned with an OPTIMAL knockout below the threshold, an
\* OPTIMAL knockout exactly at the threshold and an INFEASIBLE one.
C4_Witness ==
    /\ scan.pc = "done" /\ scan.model = "forced" /\ scan.min_growth = <<2, 3>>
    /\ scan.wt_growth = Some(3)
    /\ scan.results[1].solution[1].fobj = Some(1)
    /\ scan.results[2].solution[1].status = "UNFEASIBLE"
    /\ scan.results[3].solution[1].fobj = Some(2)
    /\ scan.essential = <<"R1", "R2">>

WildTypeOptimal == scan.wt_solution # None /\ scan.wt_solution[1].status = "OPTIMAL"

\* The scan can take a step: some step of Next is enabled (at the engine's
\* turn, the step in which it stops on its limit).
CanStep ==
    IF call.pc = "optimize" THEN ENABLED GenericSolveOptimizeAs("limit") ELSE ENABLED Next

\* C5: with an OPTIMAL wild type, no Solution returned by a knockout makes
\* the scan raise (only an exception of the engine does), the scan can always
\* take its next step until it has returned, and when it returns it has made
\* exactly one knockout solve per element, in order.
C5_NeverAborts ==
    /\ (scan.pc = "raised" /\ WildTypeOptimal) => scan.error = "GurobiError"
    /\ (scan.pc \in {"loop", "ko"} /\ WildTypeOptimal) => CanStep
    /\ \A st \in Statuses, mg \in MinGrowths :
          /\ Classify(Sol(st, IF st = "OPTIMAL" THEN Some(0) ELSE None), mg, Some(3))
                # "TypeError"
          /\ Classify(None, mg, Some(3)) # "TypeError"
    /\ scan.pc \in {"loop", "ko"} => Len(scan.results) = scan.i - 1
    /\ scan.pc = "done" =>
          /\ Len(scan.results) = Len(scan.elements)
          /\ \A k \in DOMAIN scan.results : scan.results[k].elem = scan.elements[k]

\* A scan with an OPTIMAL wild type has returned after UNBOUNDED, UNKNOWN
\* and OPTIMAL knockouts.
C5_Witness ==
    /\ scan.pc = "done" /\ WildTypeOptimal
    /\ \E k \in DOMAIN scan.results : scan.results[k].solution[1].status = "UNBOUNDED"
    /\ \E k \in DOMAIN scan.results : scan.results[k].solution[1].status = "UNKNOWN"
    /\ \E k \in DOMAIN scan.results : scan.results[k].solution[1].status = "OPTIMAL"

RECURSIVE IsSubsequence(_, _)
IsSubsequence(a, b) ==
    IF a = <<>> THEN TRUE
    ELSE IF b = <<>> THEN FALSE
    ELSE IF Head(a) = Head(b) THEN IsSubsequence(Tail(a), Tail(b))
    ELSE IsSubsequence(a, Tail(b))

\* The enumeration the claim names: model.genes for a gene scan of a
\* gene-capable model, model.reactions otherwise.
Enumeration ==
    LET model == ModelNamed(scan.model)
    IN IF scan.requested = "genes" /\ model.gpr THEN model.genes ELSE model.reactions

\* C6: the list essentiality builds and returns is a subsequence of the
\* model's element enumeration: enumeration order, no repetition, no
\* identifier from outside the target set.
C6_Subsequence ==
    scan.pc \in {"loop", "ko", "done"} =>
        /\ IsSubsequence(scan.essential, Enumeration)
        /\ Cardinality(Range(scan.essential)) = Len(scan.essential)
        /\ Range(scan.essential) \subseteq Range(Enumeration)

\* A gene scan has returned the first and the last gene, not the second.
C6_Witness ==
    /\ scan.pc = "done" /\ scan.kind = "genes"
    /\ Len(scan.elements) = 3
    /\ scan.essential = <<scan.elements[1], scan.elements[3]>>

\* C7: a solve raises the configuration error exactly when no problem was
\* ever built and no model is supplied; it does so before any override is
\* saved or applied and before the engine runs, and leaves the solver as it
\* was.  Once a problem is built, by build_problem or by a solve given a
\* model, a solve without a model does not raise it.
C7_ConfigurationError ==
    /\ (call.pc = "raised" /\ call.error = "Exception") =>
          /\ call.pre.problem = None /\ call.model = None
          /\ solver = call.pre
          /\ call.old_constraints = None /\ call.eng = "none"
    /\ (call.pc \notin {"idle", "begin"} /\ call.pre.problem = None /\ call.model = None) =>
          call.pc = "raised" /\ call.error = "Exception"
    /\ (call.pc \notin {"idle", "begin"} /\ call.pre.problem # None) =>
          call.error # "Exception"

\* A solve with overrides and no model has raised on a solver never built.
C7_Witness ==
    /\ call.pc = "raised" /\ call.error = "Exception"
    /\ Truthy(call.constraints)
    /\ solver.problem = None

\* C8: every engine status gives exactly one canonical status: OPTIMAL,
\* UNBOUNDED and INFEASIBLE their counterparts, every other value UNKNOWN;
\* and the Solution of a solve carries the status so obtained from what the
\* engine reported.
C8_StatusTotal ==
    /\ \A e \in EngineStatuses :
          /\ StatusOf(e) \in Statuses
          /\ e = GRB_OPTIMAL => StatusOf(e) = "OPTIMAL"
          /\ e = GRB_UNBOUNDED => StatusOf(e) = "UNBOUNDED"
          /\ e = GRB_INFEASIBLE => StatusOf(e) = "UNFEASIBLE"
          /\ e \notin {GRB_OPTIMAL, GRB_UNBOUNDED, GRB_INFEASIBLE} => StatusOf(e) = "UNKNOWN"
    /\ call.solution # None =>
          /\ call.engine_status \in EngineStatuses
          /\ call.solution[1].status \in Statuses
          /\ call.solution[1].status =
                (CASE call.engine_status = GRB_OPTIMAL -> "OPTIMAL"
                   [] call.engine_status = GRB_UNBOUNDED -> "UNBOUNDED"
                   [] call.engine_status = GRB_INFEASIBLE -> "UNFEASIBLE"
                   [] OTHER -> "UNKNOWN")

\* The engine has reported INF_OR_UNBD and the Solution returned is UNKNOWN.
C8_Witness ==
    /\ call.pc = "returned"
    /\ call.engine_status = GRB_INF_OR_UNBD
    /\ StatusIs(call, "UNKNOWN")

Ids(pairs) == [i \in DOMAIN pairs |-> pairs[i][1]]

\* C9: a Solution that is not OPTIMAL carries only its status; an OPTIMAL one
\* carries fobj and one flux per recorded variable id, in the recorded order,
\* shadow prices (one per recorded constraint id, in order) exactly when
\* get_shadow_prices was asked, and reduced costs exactly when
\* get_reduced_costs was asked.
C9_SolutionShape ==
    call.solution # None =>
        LET sol == call.solution[1]
        IN IF sol.status # "OPTIMAL"
           THEN /\ sol.fobj = None /\ sol.values = None
                /\ sol.shadow_prices = None /\ sol.reduced_costs = None
           ELSE /\ sol.fobj # None /\ sol.values # None
                /\ Ids(sol.values[1]) = solver.var_ids[1]
                /\ \A i \in DOMAIN sol.values[1] : sol.values[1][i][2] \in Int
                /\ (sol.shadow_prices # None) <=> call.get_shadow_prices
                /\ sol.shadow_prices # None =>
                      /\ Ids(sol.shadow_prices[1]) = solver.constr_ids[1]
                      /\ \A i \in DOMAIN sol.shadow_prices[1] :
                            sol.shadow_prices[1][i][2] = Pi(sol.shadow_prices[1][i][1])
                /\ (sol.reduced_costs # None) <=> call.get_reduced_costs
                /\ sol.reduced_costs # None =>
                      /\ Ids(sol.reduced_costs[1]) = solver.var_ids[1]
                      /\ \A i \in DOMAIN sol.reduced_costs[1] :
                            sol.reduced_costs[1][i][2] = RC(sol.reduced_costs[1][i][1])

\* An OPTIMAL solve asked for shadow prices only has returned.
C9_Witness ==
    /\ call.pc = "returned" /\ StatusIs(call, "OPTIMAL")
    /\ call.get_shadow_prices /\ ~call.get_reduced_costs
    /\ Len(solver.var_ids[1]) = 3

EmptyKnockout(f) == f.via \in {"reaction_deletion", "gene_deletion"} /\ f.arg = {}

\* Plain FBA on the solver state the call found, the engine behaving alike.
PlainFBA(f) == Run(f.pre, FBA("FBA", ModelNamed(f.pre.model[1]), None, f.pre), f.eng).f

\* C10: a deletion of the empty set saves and applies no override, so the
\* bounds in force stay those found at entry, and it ends as plain FBA on the
\* same model and solver state ends: with the same status and objective.
C10_EmptyKnockout ==
    /\ (EmptyKnockout(call) /\ call.pc # "idle") =>
          /\ call.old_constraints = None
          /\ BoundsOf(solver.problem[1]) = BoundsOf(call.pre.problem[1])
    /\ (EmptyKnockout(call) /\ call.pc \in {"returned", "raised"}) =>
          /\ call.pc = PlainFBA(call).pc
          /\ call.pc = "returned" =>
                /\ call.solution[1].status = PlainFBA(call).solution[1].status
                /\ call.solution[1].fobj = PlainFBA(call).solution[1].fobj

\* gene_deletion of no gene has returned an OPTIMAL Solution.
C10_Witness ==
    /\ call.pc = "returned" /\ call.via = "gene_deletion" /\ call.arg = {}
    /\ StatusIs(call, "OPTIMAL")

\* How the scan in progress has ended.
Outcome == [pc |-> scan.pc, essential |-> scan.essential, error |-> scan.error]

\* The knockout the solve in progress was asked for: the reactions forced to zero.
KnockedOut == IF call.constraints = None THEN {} ELSE DOMAIN call.constraints[1]

\* C11: a gene scan of a model without gene-reaction support raises no error
\* of its own (it ends as the reaction scan of the same model, min_growth,
\* constraints and engine behaviour ends) and returns exactly the list that
\* reaction scan returns, knocking out each of model.reactions in turn; a gene
\* scan of a gene-capable model iterates model.genes, each knockout forcing to
\* zero the reactions the gene inactivates.
C11_GeneFallback ==
    LET model == ModelNamed(scan.model)
    IN /\ (scan.pc \in {"done", "raised"} /\ scan.requested = "genes" /\ ~model.gpr) =>
             /\ Outcome = essential_genes(model, scan.min_growth, scan.constraints,
                                          scan.engs)
             /\ Outcome = essential_reactions(model, scan.min_growth, scan.constraints,
                                              scan.engs)
       /\ (scan.pc \in {"loop", "ko", "done"} /\ scan.requested = "genes") =>
             IF model.gpr
             THEN scan.kind = "genes" /\ scan.elements = model.genes
             ELSE scan.kind = "reactions" /\ scan.elements = model.reactions
       /\ (scan.pc = "ko" /\ scan.requested = "genes" /\ call.pc # "idle") =>
             KnockedOut = IF model.gpr
                          THEN {r \in Range(model.reactions) :
                                  /\ model.rules[r] # {}
                                  /\ \A conj \in model.rules[r] :
                                        scan.elements[scan.i] \in conj}
                          ELSE {scan.elements[scan.i]}

\* A gene scan of the forced-uptake model, which has no gene-reaction rules,
\* has returned a non-empty list of reactions.
C11_Witness ==
    /\ scan.pc = "done" /\ scan.requested = "genes" /\ scan.model = "forced"
    /\ scan.essential = <<"R1", "R2">>

\* The problem state the claim describes for a solver built from its model.
BuiltAsNew(s) ==
    LET model == ModelNamed(s.model[1])
        p == s.problem[1]
    IN /\ p.vars = Range(model.reactions)
       /\ \A r \in p.vars :
             /\ p.lb[r] = IF model.bounds[r][1] = None THEN -INFINITY
                          ELSE model.bounds[r][1][1]
             /\ p.ub[r] = IF model.bounds[r][2] = None THEN INFINITY
                          ELSE model.bounds[r][2][1]
       /\ p.pend = EmptyDict
       /\ DOMAIN p.constrs = Range(model.metabolites)
       /\ \A m \in DOMAIN p.constrs :
             /\ DOMAIN p.constrs[m] =
                   {r \in p.vars : <<m, r>> \in DOMAIN model.stoichiometry}
             /\ \A r \in DOMAIN p.constrs[m] :
                   p.constrs[m][r] = model.stoichiometry[<<m, r>>]
       /\ s.var_ids = Some(model.reactions)
       /\ s.constr_ids = Some(model.metabolites)
       /\ [s EXCEPT !.builds = 1] = build_problem(NewSolver, model)

\* The call of frame f, made again on solver s.
Again(f, s) ==
    [_generic_solve(f.via, f.quad_obj, f.lin_obj, f.sense, f.model, f.constraints,
                    f.get_shadow_prices, f.get_reduced_costs, s)
        EXCEPT !.arg = f.arg]

\* C12: every execution of build_problem, whatever the solver held before
\* (nothing, an earlier build, bounds left by earlier solves), leaves the
\* problem a single build of the model gives: one variable per reaction with
\* the model's bounds (null as -infinity / +infinity), one equality-to-zero
\* constraint per metabolite, nothing queued, var_ids and constr_ids in the
\* model's orders; and a solve that rebuilds returns the Solution the same
\* solve returns on a solver never used before.
C12_IdempotentRebuild ==
    /\ [][solver'.builds # solver.builds => BuiltAsNew(solver')]_vars
    /\ [](\A f \in {call, other} :
            (f.pc = "returned" /\ f.model # None /\ ~overlapped) =>
                f.solution = Run(NewSolver, Again(f, NewSolver), f.eng).f.solution)

\* A solve that rebuilds its problem has returned OPTIMAL on a solver
\* that was left, by a failed solve, with an override of R1 queued.
C12_Witness ==
    /\ call.pc = "returned" /\ call.model # None
    /\ call.pre.problem # None
    /\ call.pre.problem[1].pend # EmptyDict
    /\ StatusIs(call, "OPTIMAL")

\* essential_reactions(toy, min_growth=0.01), every solve answered by the engine.
ToyScan ==
    /\ scan.model = "toy" /\ scan.requested = "reactions"
    /\ scan.min_growth = <<1, 100>> /\ scan.constraints = None
    /\ \A k \in DOMAIN scan.engs : scan.engs[k] \in {"solve", "presolve"}

\* C13: for the toy model (R1, R2 in [0,10], M1 with (M1,R1) = -1 and
\* (M1,R2) = 1, objective R2 maximized) the wild-type fobj is 10, the knockout
\* of R1 is solved with R1 in [0,0] and is INFEASIBLE or OPTIMAL with fobj 0,
\* and essential_reactions(model, min_growth = 0.01) contains R1.
C13_ToyScenario ==
    /\ (ToyScan /\ scan.pc \in {"loop", "ko", "done"}) =>
          /\ scan.wt_solution[1].status = "OPTIMAL"
          /\ scan.wt_growth = Some(10)
          /\ scan.elements[1] = "R1"
    /\ (ToyScan /\ scan.pc = "ko" /\ scan.i = 1 /\ call.pc = "optimize") =>
          BoundsOf(solver.problem[1])["R1"] = <<0, 0>>
    /\ (ToyScan /\ Len(scan.results) >= 1) =>
          LET sol == scan.results[1].solution[1]
          IN \/ sol.status = "UNFEASIBLE"
             \/ sol.status = "OPTIMAL" /\ sol.fobj = Some(0)
    /\ (ToyScan /\ scan.pc = "done") =>
          /\ "R1" \in Range(scan.essential)
          /\ Outcome = essential_reactions(ToyModel, <<1, 100>>, None, scan.engs)

\* The toy scan has returned R1 and R2, the knockout of R1 being OPTIMAL at 0.
C13_Witness ==
    /\ ToyScan /\ scan.pc = "done"
    /\ scan.results[1].elem = "R1"
    /\ scan.results[1].solution[1].status = "OPTIMAL"
    /\ scan.results[1].solution[1].fobj = Some(0)
    /\ scan.essential = <<"R1", "R2">>

InScan == scan.pc \in {"wt", "loop", "ko", "done", "raised"}

\* C14: during a scan build_problem has run exactly once on the scan's
\* solver, before the wild-type solve starts; the wild-type FBA and every
\* knockout solve are given that solver, already built from the scan's
\* model, and no model, so none of them rebuilds the problem.
C14_OneBuild ==
    /\ InScan => solver.builds = 1 /\ solver.model = Some(scan.model)
    /\ (scan.pc = "wt" /\ call.pc = "begin") =>
          solver = build_problem(NewSolver, ModelNamed(scan.model))
    /\ (scan.pc \in {"wt", "ko"} /\ call.pc # "idle") =>
          /\ call.model = None
          /\ call.pre.problem # None
          /\ call.pre.builds = 1
          /\ call.pre.model = Some(scan.model)
    /\ (scan.pc = "ko" /\ call.pc = "begin") => call.pre = solver
    /\ InScan => solver.var_ids = Some(ModelNamed(scan.model).reactions)

\* A scan of three elements has returned and its solver was built once.
C14_Witness ==
    /\ scan.pc = "done" /\ Len(scan.results) = 3
    /\ solver.builds = 1

\* C15: when a scan is given base constraints B, every knockout solve is
\* optimized with the bounds of B in effect for the reactions of B it does
\* not knock out, as the wild-type solve is.
C15_BaseConstraintsInEffect ==
    (scan.pc \in {"wt", "ko"} /\ call.pc = "optimize" /\ Truthy(scan.constraints)) =>
        \A r \in DOMAIN scan.constraints[1] \ (IF scan.pc = "ko" THEN KnockedOut ELSE {}) :
            BoundsOf(solver.problem[1])[r] =
                <<LowerOf(scan.constraints[1][r]), UpperOf(scan.constraints[1][r])>>

BothReturned == call.pc = "returned" /\ other.pc = "returned"

\* Every reaction has the bounds build_problem set, and nothing is queued.
BoundsAsBuilt ==
    /\ Committed(solver.problem[1]) = BuiltBounds(solver.model[1])
    /\ solver.problem[1].pend = EmptyDict

\* C16: on a solver used from two call paths, when both solves have returned
\* and they were serialized (neither was started while the other was in
\* progress), every reaction has its built bounds; a state where both have
\* returned and some reaction's bounds differ from the built bounds is
\* reached only by interleaved calls.
C16_SerializedIsSafe ==
    (BothReturned /\ ~overlapped) => BoundsAsBuilt

\* Two interleaved solves that knock out R1, neither given a model, have both
\* returned, and R1 is left at [0,0]: the second saved the first's override.
C16_Witness ==
    /\ BothReturned /\ overlapped
    /\ call.model = None /\ other.model = None
    /\ call.constraints = Some("R1" :> Knockout)
    /\ other.constraints = Some("R1" :> Knockout)
    /\ other.old_constraints = Some("R1" :> <<0, 0>>)
    /\ Committed(solver.problem[1])["R1"] = <<0, 0>>
    /\ BuiltBounds(solver.model[1])["R1"] # <<0, 0>>

\* The bounds in effect for the next optimization that a call applies its
\* overrides to: those of the rebuilt problem when a model is supplied, those
\* found at entry otherwise.
StartInEffect(f) ==
    IF f.model # None THEN BuiltBounds(f.model[1]) ELSE BoundsOf(f.pre.problem[1])

\* An overriding pair with null replaced by -infinity / +infinity.
Replaced(c) ==
    <<IF c[1] = None THEN -INFINITY ELSE c[1][1], IF c[2] = None THEN INFINITY ELSE c[2][1]>>

\* C17 (as amended): in a solve with temporary constraints C on a built
\* problem, the bounds in effect at optimization are C[r], null replaced by
\* -infinity / +infinity, for every reaction r of C, and for every other
\* reaction the bounds the overrides were applied to (the bounds in effect
\* before the call when no model is supplied, the bounds build_problem sets
\* from the supplied model otherwise); from there to its end, however it
\* ends, the call leaves the bounds of every reaction outside C at those
\* values; and when no model is supplied it leaves var_ids, constr_ids and the
\* mass-balance constraints as they were.
C17_OverrideScope ==
    (Truthy(call.constraints) /\ call.pc \notin {"idle", "begin"}
     /\ solver.problem # None) =>
        LET p == solver.problem[1]
            C == call.constraints[1]
        IN /\ call.pc = "optimize" =>
                 \A r \in p.vars :
                     BoundsOf(p)[r] = IF r \in DOMAIN C THEN Replaced(C[r])
                                      ELSE StartInEffect(call)[r]
           /\ \A r \in p.vars \ DOMAIN C : BoundsOf(p)[r] = StartInEffect(call)[r]
           /\ call.model = None =>
                 /\ solver.var_ids = call.pre.var_ids
                 /\ solver.constr_ids = call.pre.constr_ids
                 /\ p.vars = call.pre.problem[1].vars
                 /\ p.constrs = call.pre.problem[1].constrs

\* C17 as stated: at optimization every reaction outside C has the bounds it
\* had before the call.
C17_PreCallBounds ==
    (Truthy(call.constraints) /\ call.pc = "optimize" /\ call.pre.problem # None) =>
        \A r \in (solver.problem[1].vars \cap call.pre.problem[1].vars)
                 \ DOMAIN call.constraints[1] :
            BoundsOf(solver.problem[1])[r] = BoundsOf(call.pre.problem[1])[r]

\* A solve given no model is about to optimize with R2 overridden and the
\* null upper bound of the override of R3 in effect as +infinity.
C17_Witness ==
    /\ call.pc = "optimize" /\ call.model = None
    /\ call.constraints = Some(("R2" :> Bnd(Some(1), Some(2))) @@ ("R3" :> Bnd(Some(0), None)))
    /\ BoundsOf(solver.problem[1]) =
          ("R1" :> <<0, 2>>) @@ ("R2" :> <<1, 2>>) @@ ("R3" :> <<0, INFINITY>>)

\* The solver as build_problem leaves it for the model it was last built from.
AsBuilt(s) == build_problem(NewSolver, ModelNamed(s.model[1]))

\* From the objective step on, the problem's objective and sense are those
\* of the call in progress: its non-zero terms, maximized by solve_lp and
\* minimized by solve_qp.
ObjectiveReplaced ==
    call.pc \in {"optimize", "restore", "returned"} =>
        /\ solver.problem[1].obj_lin = NonZero(call.lin_obj)
        /\ solver.problem[1].obj_quad = NonZero(call.quad_obj)
        /\ \A k \in DOMAIN solver.problem[1].obj_lin : solver.problem[1].obj_lin[k] # 0
        /\ solver.problem[1].sense =
              IF call.via = "solve_qp" THEN GRB_MINIMIZE ELSE GRB_MAXIMIZE

\* C18: on a reused solver the Solution of a solve is the one the same call
\* (same objective, same constraints, same engine behaviour) returns on the
\* problem as built: it depends on no objective, quadratic term or
\* constraint of an earlier solve.
C18_NoCarryOver ==
    (call.pc = "returned" /\ call.pre.problem # None) =>
        call.solution = Run(AsBuilt(solver), Again(call, AsBuilt(solver)), call.eng).f.solution

WildTypeNotOptimal == scan.wt_solution # None /\ scan.wt_solution[1].status # "OPTIMAL"

KnockoutStatus(k) == scan.results[k].solution[1].status

\* C19: when the wild-type Solution is not OPTIMAL, wt_growth is absent; the
\* scan raises TypeError exactly at the first element, in enumeration order,
\* whose knockout Solution is OPTIMAL (every knockout before it was not, and
\* no scan goes on past an OPTIMAL knockout), and when no knockout is OPTIMAL
\* it completes and returns exactly the elements whose knockout is INFEASIBLE.
C19_AbsentWildType ==
    WildTypeNotOptimal =>
        /\ scan.wt_growth = None
        /\ \A k \in DOMAIN scan.results : scan.results[k].elem = scan.elements[k]
        /\ (scan.pc = "raised" /\ scan.error = "TypeError") =>
              /\ scan.results # <<>>
              /\ KnockoutStatus(Len(scan.results)) = "OPTIMAL"
              /\ \A k \in 1 .. Len(scan.results) - 1 : KnockoutStatus(k) # "OPTIMAL"
        /\ scan.pc \in {"loop", "ko", "done"} =>
              \A k \in DOMAIN scan.results : KnockoutStatus(k) # "OPTIMAL"
        /\ (scan.pc = "raised" /\ scan.error # "TypeError") => scan.error = "GurobiError"
        /\ scan.pc = "done" =>
              /\ Len(scan.results) = Len(scan.elements)
              /\ Range(scan.essential) =
                    {scan.results[k].elem : k \in {j \in DOMAIN scan.results :
                                                     KnockoutStatus(j) = "UNFEASIBLE"}}

\* A scan whose wild type was not OPTIMAL has raised at its third element,
\* the first with an OPTIMAL knockout, after an UNKNOWN and an INFEASIBLE one.
C19_Witness ==
    /\ WildTypeNotOptimal
    /\ scan.pc = "raised" /\ scan.error = "TypeError"
    /\ Len(scan.results) = 3
    /\ KnockoutStatus(1) = "UNKNOWN" /\ KnockoutStatus(2) = "UNFEASIBLE"
    /\ KnockoutStatus(3) = "OPTIMAL"
    /\ scan.essential = <<scan.elements[2]>>

=============================================================================
